---- MODULE Spec2Model ----
(***************************************************************************)
(* User microservice (server.mjs): five Express handlers over one "users"  *)
(* table kept either in PostgreSQL (usePostgres) or in DynamoDB, plus the  *)
(* best-effort order lookup of GET /users/:id and the initDB bootstrap.    *)
(* Each handler is split at its await points: the synchronous prefix that  *)
(* receives and validates the request, the completion of the storage call, *)
(* and (single get only) the completion of the order-service call.  The    *)
(* handlers share no in-process state, so the model takes the requests one *)
(* at a time: req / resp hold the exchange in progress.                    *)
(***************************************************************************)
EXTENDS Integers, Sequences, FiniteSets, TLC

\* ---- bounds of the model -------------------------------------------------
MaxUsers == 2

IdPool == <<"u1", "u2", "u3", "u4">>

\* The name / email pairs the requests carry; a field of a body may also be
\* absent or empty (BodyValues).
Profiles == {[name |-> "Ann", email |-> "ann@x.com"], [name |-> "Annie", email |-> "a@x.com"]}

UserIds == {IdPool[i] : i \in 1..MaxUsers}

\* JS undefined (a field absent from the JSON body); no string of the pools
\* equals it.  In JS both undefined and "" are falsy.
Undefined == "<undefined>"
Falsy(v) == v \in {Undefined, ""}

\* What the order service may answer on success (r.data).
OrderData == {<<>>, <<"o1">>}

TABLE == "Users"
NoError == ""

VARIABLES
  usePostgres,  \* process.env.USE_POSTGRES === 'true', fixed for the process
  boot,         \* position of the startup code
  bootError,    \* what initDB's bootstrap call threw ("" when nothing)
  table,        \* the rows / items of the users table in the active store
  req,          \* the request being handled and the handler's position
  resp,         \* what the handler wrote to res for it
  lastWrite,    \* history: per id, the last write request whose storage call succeeded
  everStored    \* history: the ids some successful create or update has stored

vars == <<usePostgres, boot, bootError, table, req, resp, lastWrite, everStored>>

\* ---- the relational store: table users (userid, name, email) -------------
\* Unquoted identifiers are folded to lower case, so the column created by
\* "userid TEXT PRIMARY KEY" and named userId in the statements is userid,
\* and result rows carry the key under "userid".
PgRow(id, n, e) == [userid |-> id, name |-> n, email |-> e]

\* Some ordering of a set of rows (result order is backend-defined).
Orderings(S) ==
  {s \in [1..Cardinality(S) -> S] : \A i, j \in 1..Cardinality(S) : s[i] = s[j] => i = j}

\* Variant: the table has no primary key, so an INSERT never fails.
PgInsertNoKey(t, id, n, e) == [err |-> NoError, table |-> t \cup {PgRow(id, n, e)}]

\* INSERT INTO users (userId, name, email) VALUES ($1, $2, $3)
PgInsert(t, id, n, e) ==
  IF \E r \in t : r.userid = id
  THEN [err |-> "unique_violation", table |-> t]
  ELSE [err |-> NoError, table |-> t \cup {PgRow(id, n, e)}]

\* SELECT * FROM users WHERE userId=$1   (the possible result.rows)
PgSelectById(t, id) == Orderings({r \in t : r.userid = id})

\* Variant: the statement sets the name only.
PgUpdateNameOnly(t, id, n, e) ==
  {IF r.userid = id THEN [r EXCEPT !.name = n] ELSE r : r \in t}

\* UPDATE users SET name=$1, email=$2 WHERE userId=$3
PgUpdate(t, id, n, e) ==
  {IF r.userid = id THEN PgRow(id, n, e) ELSE r : r \in t}

\* Variant: the statement has no WHERE clause.
PgDeleteAll(t, id) == {}

\* DELETE FROM users WHERE userId=$1
PgDelete(t, id) == {r \in t : r.userid # id}

\* SELECT * FROM users   (the possible result.rows)
PgSelectAll(t) == Orderings(t)

\* ---- the key-value store: table Users, hash key userId -------------------
DdbItem(id, n, e) == [userId |-> [S |-> id], name |-> [S |-> n], email |-> [S |-> e]]

\* PutItem replaces the item with the same key.
DdbPutItem(t, item) == {i \in t : i.userId # item.userId} \cup {item}

\* GetItem: the items under the key (none or one).
DdbGetItem(t, id) == Orderings({i \in t : i.userId.S = id})

\* UpdateItem SET #n = :n, email = :e: edits the item, or creates it.
DdbUpdateItem(t, id, n, e) ==
  IF \E i \in t : i.userId.S = id
  THEN {IF i.userId.S = id THEN [i EXCEPT !.name = [S |-> n], !.email = [S |-> e]] ELSE i : i \in t}
  ELSE t \cup {DdbItem(id, n, e)}

DdbDeleteItem(t, id) == {i \in t : i.userId.S # id}

\* Scan: result.Items in some order.
DdbScan(t) == Orderings(t)

\* The key of a stored row, whichever store holds it.
KeyOf(r) == IF usePostgres THEN r.userid ELSE r.userId.S
StoredIds(t) == {KeyOf(r) : r \in t}

\* ---- requests and responses ----------------------------------------------
\* Of a request the model keeps, besides its inputs and the handler's position
\* pc, a record of what the handler did: the storage and order calls made,
\* the store-level fault met (fault), what the storage call threw (dbError),
\* whether a record was stored under the request's id when the storage call
\* of a create, update or delete ran (existed), and what the history variables
\* said when the lookup of a single get ran (saw, sawStored).
NoWrite == [op |-> "none", name |-> "", email |-> "", existed |-> FALSE]

NoResp == [status |-> 0, body |-> [none |-> TRUE], sent |-> 0]

NewReq(method, id, userId, name, email) ==
  [pc |-> "db", method |-> method, id |-> id,
   userId |-> userId, name |-> name, email |-> email,
   user |-> [none |-> TRUE],
   dbCalls |-> 0, orderCalls |-> 0, fault |-> NoError, dbError |-> NoError,
   ordersFailed |-> FALSE, existed |-> FALSE,
   saw |-> NoWrite, sawStored |-> FALSE]

IdleReq == [NewReq("NONE", "", Undefined, Undefined, Undefined) EXCEPT !.pc = "idle"]

\* res.status(status).json(body): one more response written on this request.
Json(r, status, body) == [status |-> status, body |-> body, sent |-> r.sent + 1]

\* Variant: the caught error's message is sent to the client.
InternalErrorLeaks(r, error) == Json(r, 500, [error |-> error])

\* catch (error) { console.error(..., error); res.status(500).json({error: ...}) }
InternalError(r, error) == Json(r, 500, [error |-> "Internal server error"])

\* The handlers are reachable once app.listen has run, or when the module is
\* imported and driven directly (the tests), in which case initDB never ran.
Serving == boot \in {"listening", "imported"}

\* What a storage call can throw apart from what the statement itself decides:
\* nothing or a store-level failure; with pgClient / dynamo never assigned
\* (module imported, initDB not run) the call throws a TypeError.
StorageFaults ==
  IF boot = "imported" THEN {"TypeError"} ELSE {NoError, "ECONNREFUSED"}

Accepts == Serving /\ req.pc = "idle"

\* ---- POST /users ----------------------------------------------------------
\* Variant: the presence check forgets the email.
MissingCreateFieldsNoEmail(userId, name, email) == Falsy(userId) \/ Falsy(name)

\* if (!userId || !name || !email)
MissingCreateFields(userId, name, email) == Falsy(userId) \/ Falsy(name) \/ Falsy(email)

\* The storage call of the create handler: [err, table] after it.
CreateQuery(t, userId, name, email, fault) ==
  IF fault # NoError THEN [err |-> fault, table |-> t]
  ELSE IF usePostgres THEN PgInsert(t, userId, name, email)
  ELSE [err |-> NoError, table |-> DdbPutItem(t, DdbItem(userId, name, email))]

PostUsers(userId, name, email) ==
  /\ Accepts
  /\ LET r == NewReq("POST", "", userId, name, email) IN
       IF MissingCreateFields(userId, name, email)
       THEN /\ req' = [r EXCEPT !.pc = "done"]
            /\ resp' = Json(NoResp, 400, [error |-> "Missing fields"])
       ELSE /\ req' = r
            /\ resp' = NoResp
  /\ UNCHANGED <<usePostgres, boot, bootError, table, lastWrite, everStored>>

PostUsersQuery ==
  /\ req.pc = "db" /\ req.method = "POST"
  /\ \E fault \in StorageFaults :
       LET r == req
           q == CreateQuery(table, r.userId, r.name, r.email, fault)
       IN /\ table' = q.table
          /\ req' = [r EXCEPT !.pc = "done", !.dbCalls = 1, !.fault = fault, !.dbError = q.err,
                             !.existed = (r.userId \in StoredIds(table))]
          /\ resp' = IF q.err = NoError
                      THEN Json(resp, 201, [message |-> "User created!"])
                      ELSE InternalError(resp, q.err)
          /\ lastWrite' = IF q.err = NoError
                          THEN [lastWrite EXCEPT ![r.userId] =
                                  [op |-> "POST", name |-> r.name, email |-> r.email, existed |-> FALSE]]
                          ELSE lastWrite
          /\ everStored' = everStored \cup StoredIds(q.table)
  /\ UNCHANGED <<usePostgres, boot, bootError>>

\* ---- GET /users/:id -------------------------------------------------------
\* Variant: the lookup does not restrict to the key.
GetQueryNoKey(t, id) == IF usePostgres THEN PgSelectAll(t) ELSE DdbScan(t)

\* The lookup of the single-get handler: the rows / items found under id.
GetQuery(t, id) == IF usePostgres THEN PgSelectById(t, id) ELSE DdbGetItem(t, id)

\* user = result.rows[0]  |  user = {userId: Item.userId.S, name: ..., email: ...}
UserOf(row) ==
  IF usePostgres THEN row
  ELSE [userId |-> row.userId.S, name |-> row.name.S, email |-> row.email.S]

\* if (!result.rows[0]) / if (!Item) return res.status(404)...
NotFound(rows) == Len(rows) = 0

GetUser(id) ==
  /\ Accepts
  /\ req' = NewReq("GET", id, Undefined, Undefined, Undefined)
  /\ resp' = NoResp
  /\ UNCHANGED <<usePostgres, boot, bootError, table, lastWrite, everStored>>

GetUserQuery ==
  /\ req.pc = "db" /\ req.method = "GET"
  /\ \E fault \in StorageFaults :
       LET r == [req EXCEPT !.dbCalls = 1, !.fault = fault, !.dbError = fault,
                               !.saw = lastWrite[req.id],
                               !.sawStored = (req.id \in everStored)]
       IN IF fault # NoError
          THEN /\ req' = [r EXCEPT !.pc = "done"]
               /\ resp' = InternalError(resp, fault)
          ELSE \E rows \in GetQuery(table, r.id) :
                 IF NotFound(rows)
                 THEN /\ req' = [r EXCEPT !.pc = "done"]
                      /\ resp' = Json(resp, 404, [error |-> "User not found"])
                 ELSE /\ req' = [r EXCEPT !.pc = "orders", !.user = UserOf(rows[1])]
                      /\ resp' = resp
  /\ UNCHANGED <<usePostgres, boot, bootError, table, lastWrite, everStored>>

\* let orders = []; try { orders = (await axios.get(...)).data } catch {}
OrdersOf(failed, data) == IF failed THEN <<>> ELSE data

\* Variant: no inner try/catch, the order call's failure reaches the outer catch.
GetUserAnswerThrows(r, user, failed, data) ==
  IF failed THEN InternalError(r, "order service") ELSE Json(r, 200, [user |-> user, orders |-> data])

\* What the handler answers once the order call has returned or thrown.
GetUserAnswer(r, user, failed, data) ==
  Json(r, 200, [user |-> user, orders |-> OrdersOf(failed, data)])

GetUserOrders ==
  /\ req.pc = "orders"
  /\ \E failed \in BOOLEAN, data \in OrderData :
       /\ req' = [req EXCEPT !.pc = "done", !.orderCalls = 1, !.ordersFailed = failed]
       /\ resp' = GetUserAnswer(resp, req.user, failed, data)
  /\ UNCHANGED <<usePostgres, boot, bootError, table, lastWrite, everStored>>

\* ---- PUT /users/:id -------------------------------------------------------
\* if (!name || !email)
MissingUpdateFields(name, email) == Falsy(name) \/ Falsy(email)

\* The storage call of the update handler; no existence check precedes it.
UpdateQuery(t, id, name, email, fault) ==
  IF fault # NoError THEN [err |-> fault, table |-> t]
  ELSE IF usePostgres THEN [err |-> NoError, table |-> PgUpdate(t, id, name, email)]
  ELSE [err |-> NoError, table |-> DdbUpdateItem(t, id, name, email)]

PutUser(id, name, email) ==
  /\ Accepts
  /\ LET r == NewReq("PUT", id, Undefined, name, email) IN
       IF MissingUpdateFields(name, email)
       THEN /\ req' = [r EXCEPT !.pc = "done"]
            /\ resp' = Json(NoResp, 400, [error |-> "Missing fields"])
       ELSE /\ req' = r
            /\ resp' = NoResp
  /\ UNCHANGED <<usePostgres, boot, bootError, table, lastWrite, everStored>>

PutUserQuery ==
  /\ req.pc = "db" /\ req.method = "PUT"
  /\ \E fault \in StorageFaults :
       LET r == req
           q == UpdateQuery(table, r.id, r.name, r.email, fault)
       IN /\ table' = q.table
          /\ req' = [r EXCEPT !.pc = "done", !.dbCalls = 1, !.fault = fault, !.dbError = q.err,
                             !.existed = (r.id \in StoredIds(table))]
          /\ resp' = IF q.err = NoError
                      THEN Json(resp, 200, [message |-> "User updated!"])
                      ELSE InternalError(resp, q.err)
          /\ lastWrite' = IF q.err = NoError
                          THEN [lastWrite EXCEPT ![r.id] =
                                  [op |-> "PUT", name |-> r.name, email |-> r.email,
                                   existed |-> (r.id \in StoredIds(table))]]
                          ELSE lastWrite
          /\ everStored' = everStored \cup StoredIds(q.table)
  /\ UNCHANGED <<usePostgres, boot, bootError>>

\* ---- DELETE /users/:id ----------------------------------------------------
DeleteQuery(t, id, fault) ==
  IF fault # NoError THEN [err |-> fault, table |-> t]
  ELSE IF usePostgres THEN [err |-> NoError, table |-> PgDelete(t, id)]
  ELSE [err |-> NoError, table |-> DdbDeleteItem(t, id)]

DeleteUser(id) ==
  /\ Accepts
  /\ req' = NewReq("DELETE", id, Undefined, Undefined, Undefined)
  /\ resp' = NoResp
  /\ UNCHANGED <<usePostgres, boot, bootError, table, lastWrite, everStored>>

DeleteUserQuery ==
  /\ req.pc = "db" /\ req.method = "DELETE"
  /\ \E fault \in StorageFaults :
       LET r == req
           q == DeleteQuery(table, r.id, fault)
       IN /\ table' = q.table
          /\ req' = [r EXCEPT !.pc = "done", !.dbCalls = 1, !.fault = fault, !.dbError = q.err,
                             !.existed = (r.id \in StoredIds(table))]
          /\ resp' = IF q.err = NoError
                      THEN Json(resp, 200, [message |-> "User deleted!"])
                      ELSE InternalError(resp, q.err)
          /\ lastWrite' = IF q.err = NoError
                          THEN [lastWrite EXCEPT ![r.id] = [NoWrite EXCEPT !.op = "DELETE"]]
                          ELSE lastWrite
  /\ UNCHANGED <<usePostgres, boot, bootError, everStored>>

\* ---- GET /users -----------------------------------------------------------
\* The possible results of the list handler's storage call.
ListQuery(t) == IF usePostgres THEN PgSelectAll(t) ELSE DdbScan(t)

\* res.json(result.rows)  |  res.json(result.Items.map(i => ({userId: i.userId.S, ...})))
ListBody(rows) ==
  IF usePostgres THEN rows
  ELSE [k \in 1..Len(rows) |->
          [userId |-> rows[k].userId.S, name |-> rows[k].name.S, email |-> rows[k].email.S]]

ListUsers ==
  /\ Accepts
  /\ req' = NewReq("LIST", "", Undefined, Undefined, Undefined)
  /\ resp' = NoResp
  /\ UNCHANGED <<usePostgres, boot, bootError, table, lastWrite, everStored>>

ListUsersQuery ==
  /\ req.pc = "db" /\ req.method = "LIST"
  /\ \E fault \in StorageFaults :
       LET r == [req EXCEPT !.pc = "done", !.dbCalls = 1, !.fault = fault, !.dbError = fault] IN
         /\ req' = r
         /\ IF fault # NoError
            THEN resp' = InternalError(resp, fault)
            ELSE \E rows \in ListQuery(table) :
                   resp' = Json(resp, 200, ListBody(rows))
  /\ UNCHANGED <<usePostgres, boot, bootError, table, lastWrite, everStored>>

\* The response has been delivered and the exchange is over; the next request
\* can be taken.
Finish ==
  /\ req.pc = "done"
  /\ req' = IdleReq
  /\ resp' = NoResp
  /\ UNCHANGED <<usePostgres, boot, bootError, table, lastWrite, everStored>>

\* ---- bootstrap and startup ------------------------------------------------
\* What the bootstrap call of each backend can do: pgClient.connect() and the
\* CREATE TABLE IF NOT EXISTS query, or ddb.createTable().
PgBootOutcomes == {NoError, "connect_error", "query_error"}
DdbBootOutcomes == {NoError, "ResourceInUseException", "OtherError"}

\* initDB(): the state of its promise for a given outcome of the bootstrap
\* call.  The relational branch has no try/catch; the key-value branch
\* catches every error of createTable and only logs it.
InitDBResult(thrown) ==
  IF usePostgres
  THEN IF thrown = NoError THEN "resolved" ELSE "rejected"
  ELSE "resolved"

initDB ==
  /\ boot = "initDB"
  /\ \E thrown \in IF usePostgres THEN PgBootOutcomes ELSE DdbBootOutcomes :
       /\ bootError' = thrown
       /\ boot' = InitDBResult(thrown)
  /\ UNCHANGED <<usePostgres, table, req, resp, lastWrite, everStored>>

\* .then(() => { app.listen(PORT, ...) })
Listen ==
  /\ boot = "resolved"
  /\ boot' = "listening"
  /\ UNCHANGED <<usePostgres, bootError, table, req, resp, lastWrite, everStored>>

\* .catch((err) => { console.error(...); process.exit(1) })
Exit ==
  /\ boot = "rejected"
  /\ boot' = "exited"
  /\ UNCHANGED <<usePostgres, bootError, table, req, resp, lastWrite, everStored>>

\* ---- the system -----------------------------------------------------------
BodyValues(S) == S \cup {Undefined, ""}

Init ==
  /\ usePostgres \in BOOLEAN
  /\ boot \in {"initDB", "imported"}
  /\ bootError = NoError
  /\ table = {}
  /\ req = IdleReq
  /\ resp = NoResp
  /\ lastWrite = [id \in UserIds |-> NoWrite]
  /\ everStored = {}

Next ==
  \/ initDB
  \/ Listen
  \/ Exit
  \/ \E userId \in BodyValues(UserIds), p \in Profiles :
       \E name \in BodyValues({p.name}), email \in BodyValues({p.email}) :
         PostUsers(userId, name, email)
  \/ PostUsersQuery
  \/ \E id \in UserIds : GetUser(id)
  \/ GetUserQuery
  \/ GetUserOrders
  \/ \E id \in UserIds, p \in Profiles :
       \E name \in BodyValues({p.name}), email \in BodyValues({p.email}) :
         PutUser(id, name, email)
  \/ PutUserQuery
  \/ \E id \in UserIds : DeleteUser(id)
  \/ DeleteUserQuery
  \/ ListUsers
  \/ ListUsersQuery
  \/ Finish

Spec == Init /\ [][Next]_vars

\* Node's event loop runs the continuation of every settled await, so a
\* handler whose storage or order call has returned or thrown goes on.
Fairness ==
  /\ WF_vars(PostUsersQuery)
  /\ WF_vars(GetUserQuery)
  /\ WF_vars(GetUserOrders)
  /\ WF_vars(PutUserQuery)
  /\ WF_vars(DeleteUserQuery)
  /\ WF_vars(ListUsersQuery)

FairSpec == Init /\ [][Next]_vars /\ Fairness

TypeOK ==
  /\ usePostgres \in BOOLEAN
  /\ boot \in {"initDB", "imported", "resolved", "rejected", "listening", "exited"}
  /\ req.pc \in {"idle", "db", "orders", "done"}

\* ---- the properties ---------------------------------------------------------
\* Storage failures are the subject of C8 alone; the other properties speak of
\* requests whose storage call met no store-level fault (req.fault = NoError).

\* Readers of a stored row, whichever store holds it.
NameOf(r) == IF usePostgres THEN r.name ELSE r.name.S
EmailOf(r) == IF usePostgres THEN r.email ELSE r.email.S

\* The identifier a returned user object carries, under either spelling.
IdOf(u) == IF "userId" \in DOMAIN u THEN u.userId ELSE u.userid

QueryRan == req.dbCalls = 1 /\ req.fault = NoError
Answered == req.pc = "done"

\* ---- C1 ----
\* C1: a POST /users whose userId, name or email is absent or empty is
\* answered at once with 400 {error: "Missing fields"}, exactly once, and the
\* handler makes no storage call for it.
C1_MissingFieldsRejected ==
  (req.method = "POST"
     /\ (req.userId \in {Undefined, ""} \/ req.name \in {Undefined, ""} \/ req.email \in {Undefined, ""}))
  => /\ req.pc = "done"
     /\ resp.status = 400
     /\ resp.body = [error |-> "Missing fields"]
     /\ resp.sent = 1
     /\ req.dbCalls = 0

\* A POST with only the email empty, rejected while the store holds a record.
C1_Witness ==
  /\ req.method = "POST" /\ req.email = "" /\ req.userId \in UserIds /\ req.name = "Ann"
  /\ resp.status = 400 /\ table # {}

\* ---- C2 ----
\* C2: a GET /users/:id whose lookup runs after a POST of that id answered 201,
\* with no other successful write to the id in between, is answered 200 with
\* the user {userId, name, email} (these field names) holding the posted values.
C2_CreateThenGet ==
  (req.method = "GET" /\ Answered /\ QueryRan /\ req.saw.op = "POST")
  => /\ resp.status = 200
     /\ resp.body.user = [userId |-> req.id, name |-> req.saw.name, email |-> req.saw.email]

\* ---- C3 ----
\* C3: a GET /users/:id for an id that no successful create or update has
\* ever stored is answered 404 {error: "User not found"} straight after the
\* lookup, exactly once, with no call to the order service.
C3_UnknownIdNotFound ==
  (req.method = "GET" /\ QueryRan /\ ~req.sawStored)
  => /\ req.pc = "done"
     /\ resp.status = 404
     /\ resp.body = [error |-> "User not found"]
     /\ resp.sent = 1
     /\ req.orderCalls = 0

\* A 404 for a never-stored id while another user is stored.
C3_Witness ==
  /\ req.method = "GET" /\ QueryRan /\ ~req.sawStored
  /\ resp.status = 404 /\ table # {}

\* ---- C4 ----
\* C4: a GET /users/:id whose lookup runs after a PUT of an existing id
\* answered 200 (no other successful write to the id in between) is answered
\* 200 with the new name and email under the same id; and a PUT with non-empty
\* name and email whose storage call meets no store-level fault is answered
\* 200, also for an id that is not stored.
C4_UpdateThenGet ==
  /\ (req.method = "GET" /\ Answered /\ QueryRan /\ req.saw.op = "PUT" /\ req.saw.existed)
     => /\ resp.status = 200
        /\ resp.body.user.name = req.saw.name
        /\ resp.body.user.email = req.saw.email
        /\ IdOf(resp.body.user) = req.id
  /\ (req.method = "PUT" /\ Answered /\ req.name \notin {Undefined, ""} /\ req.email \notin {Undefined, ""}
        /\ req.fault = NoError)
     => /\ resp.status = 200
        /\ resp.body = [message |-> "User updated!"]

\* A GET that shows the values of an update of an existing record.
C4_Witness ==
  /\ req.method = "GET" /\ Answered /\ req.saw.op = "PUT" /\ req.saw.existed
  /\ resp.status = 200 /\ resp.body.user.name = "Annie"

\* An update of an id that is not stored, answered 200.
C4_WitnessMissingId ==
  /\ req.method = "PUT" /\ Answered /\ resp.status = 200 /\ ~req.existed

\* ---- C5 ----
DeleteStep == req.method = "DELETE" /\ req.pc = "db" /\ req'.pc = "done"

\* C5: a GET /users/:id whose lookup runs after a DELETE of that id answered
\* 200 (no later successful write to the id) is answered 404; a DELETE whose
\* storage call meets no fault is answered 200 and leaves no record under the
\* id, and when the id was not stored it leaves the table as it was.
C5_DeleteThenGet ==
  /\ [](  (req.method = "GET" /\ QueryRan /\ req.saw.op = "DELETE")
          => (req.pc = "done" /\ resp.status = 404 /\ resp.body = [error |-> "User not found"]))
  /\ [][ (DeleteStep /\ req'.fault = NoError)
         => /\ resp'.status = 200
            /\ resp'.body = [message |-> "User deleted!"]
            /\ req.id \notin StoredIds(table')
            /\ (req.id \notin StoredIds(table) => table' = table) ]_vars

\* A 404 after a delete of a record that had been created.
C5_Witness ==
  /\ req.method = "GET" /\ QueryRan /\ req.saw.op = "DELETE" /\ req.sawStored
  /\ resp.status = 404 /\ table # {}

\* ---- C6 ----
\* C6: a GET /users answered 200 returns an array with exactly one element per
\* stored record, each element being {userId, name, email} with the record's
\* values.
C6_ListMatchesStore ==
  (req.method = "LIST" /\ Answered /\ resp.status = 200)
  => /\ Len(resp.body) = Cardinality(table)
     /\ \A r \in table :
          \E k \in 1..Len(resp.body) :
            resp.body[k] = [userId |-> KeyOf(r), name |-> NameOf(r), email |-> EmailOf(r)]

\* ---- C7 ----
\* C7: when the order-service call fails, the GET /users/:id of a stored user
\* is answered 200, exactly once, with that user's stored values and
\* orders = [].
C7_OrdersFailureIgnored ==
  (req.method = "GET" /\ Answered /\ req.ordersFailed)
  => /\ resp.status = 200
     /\ resp.sent = 1
     /\ resp.body.orders = <<>>
     /\ \E r \in table :
          /\ KeyOf(r) = req.id
          /\ IdOf(resp.body.user) = req.id
          /\ resp.body.user.name = NameOf(r)
          /\ resp.body.user.email = EmailOf(r)

\* A stored user returned with empty orders after the order call failed.
C7_Witness ==
  /\ req.method = "GET" /\ Answered /\ req.ordersFailed
  /\ resp.status = 200 /\ resp.body.orders = <<>>

\* ---- C8 ----
InFlight == req.pc \in {"db", "orders"}

StorageFailureMapped ==
  /\ (req.dbCalls = 1 /\ req.dbError # NoError)
     => /\ req.pc = "done"
        /\ resp.status = 500
        /\ resp.body = [error |-> "Internal server error"]
  /\ Answered => resp.sent = 1
  /\ InFlight => resp.sent = 0

\* C8: whatever handler it happens in, a storage call that throws is answered
\* 500 {error: "Internal server error"} and nothing else; a request is never
\* answered twice, and every request a handler has taken is eventually
\* answered, whatever the storage and order calls return or throw.
C8_AlwaysAnsweredOnce ==
  /\ []StorageFailureMapped
  /\ (InFlight ~> Answered)

\* A constraint violation of the relational store answered with the generic 500.
C8_Witness ==
  /\ req.method = "POST" /\ Answered /\ req.dbError = "unique_violation"
  /\ resp.status = 500 /\ resp.sent = 1

\* ---- C9 ----
\* C9: the listener starts only after initDB has completed; after a bootstrap
\* failure other than ResourceInUseException the server never listens; a
\* ResourceInUseException does not prevent the start.
C9_BootFailureIsFatal ==
  /\ (bootError \notin {NoError, "ResourceInUseException"}) => boot # "listening"
  /\ (bootError = "ResourceInUseException") => boot \in {"resolved", "listening"}

\* ---- C10 ----
CreateStep == req.method = "POST" /\ req.pc = "db" /\ req'.pc = "done"

UniqueUserId == \A r1, r2 \in table : KeyOf(r1) = KeyOf(r2) => r1 = r2

\* C10: the table never holds two records with the same userId.  A valid POST
\* for a stored userId (its storage call meeting no store-level fault) is, on
\* the key-value store, answered 201 and leaves under that id the posted name
\* and email; on the relational store it is answered 500 and leaves the table
\* as it was.  Either way the number of records is unchanged.
C10_CreateOnExistingId ==
  /\ []UniqueUserId
  /\ [][ (CreateStep /\ req.userId \in StoredIds(table) /\ req'.fault = NoError)
         => /\ Cardinality(table') = Cardinality(table)
            /\ IF usePostgres
               THEN resp'.status = 500 /\ table' = table
               ELSE /\ resp'.status = 201
                    /\ \A r \in table' :
                         KeyOf(r) = req.userId => (NameOf(r) = req.name /\ EmailOf(r) = req.email) ]_vars

\* The key-value store holding the values of a second POST of the same id.
C10_Witness ==
  /\ ~usePostgres /\ req.method = "POST" /\ Answered /\ req.existed
  /\ resp.status = 201 /\ req.name = "Annie"
  /\ \E r \in table : KeyOf(r) = req.userId /\ NameOf(r) = "Annie"

====
